---- MODULE Spec2Model ----
(***************************************************************************)
(* Model of the CAT25256 SPI EEPROM driver (cat25256.c / cat25256.h).      *)
(*                                                                         *)
(* The driver is a sequential program.  A public operation is called when  *)
(* pc = "idle" and has returned when pc = "done".  The one-transaction     *)
(* operations (read, read_register, write_register) run to completion in   *)
(* one step.  cat25256_write_page is a sequence of steps, one per bus      *)
(* transaction, and cat25256_write is a sequence of cat25256_write_page    *)
(* calls.                                                                  *)
(*                                                                         *)
(* Every call of a byte-write or byte-read capability may report OK or     *)
(* NOK; the status byte a status-register read delivers is chosen by the   *)
(* device.  The return values of cs_enable and cs_disable are ignored by   *)
(* the driver; they are chosen freely in the one-transaction operations    *)
(* and are OK within a page write.                                         *)
(*                                                                         *)
(* bus is the sequence of capability invocations of the running            *)
(* cat25256_write_page call (or of the running one-transaction operation). *)
(* calls is the sequence of cat25256_write_page calls issued by the        *)
(* running public operation.                                               *)
(***************************************************************************)
EXTENDS Integers, Sequences, FiniteSets, TLC

\* ---------------------------------------------------------------- constants
WREN  == 6
WRDI  == 4
RDSR  == 5
WRSR  == 1
READ  == 3
WRITE == 2

NREADY    == 1
PAGE_SIZE == 64

MEMORY_STATUS_OK             == 0
MEMORY_STATUS_NOK            == 1
MEMORY_STATUS_INVALID_HANDLE == 2

\* ------------------------------------------------------------------ bounds
\* longest write request
MaxLength == 130
\* largest number of status reads that report "busy" in one busy-poll
MaxPolls  == 1
\* largest status-register value the device reports
MaxStatus == 3

\* ------------------------------------------------------------------ inputs
Addresses    == {0, 60, 64, 65636}
Lengths      == 0 .. MaxLength
ChipSelects  == {0, 1}
StatusValues == 0 .. MaxStatus
\* results a byte-read / byte-write capability reports
CapResults   == {MEMORY_STATUS_OK, MEMORY_STATUS_NOK}
\* a handle: NULL, or a struct whose function pointers are present or NULL
NullHandle == [null |-> TRUE, read |-> FALSE, write |-> FALSE,
               cs_enable |-> FALSE, cs_disable |-> FALSE]
Handles == {NullHandle} \cup
           [null : {FALSE}, read : BOOLEAN, write : BOOLEAN,
            cs_enable : BOOLEAN, cs_disable : BOOLEAN]
ValidHandle == [null |-> FALSE, read |-> TRUE, write |-> TRUE,
                cs_enable |-> TRUE, cs_disable |-> TRUE]

\* ----------------------------------------------------------------- helpers
\* conversion to uint8_t
Uint8(x)  == x % 256
\* Addresses and lengths are uint32_t in the code.  The requests of the
\* model stay below 2^17 + MaxLength, far from 2^31, so no sum of the
\* splitter wraps and the conversion of length_remainder to int keeps its
\* value; the arithmetic is therefore written without a modulus.

RECURSIVE BitAnd(_, _)
BitAnd(a, b) ==
    IF a = 0 \/ b = 0 THEN 0
    ELSE (a % 2) * (b % 2) + 2 * BitAnd(a \div 2, b \div 2)

\* one capability invocation
Event(o, c, b, bytes, off, len, rc) ==
    [op |-> o, cs |-> c, buf |-> b, bytes |-> bytes, off |-> off,
     len |-> len, rc |-> rc]
NoCs == -1
CsEnable(c)  == Event("cs_enable", c, "none", <<>>, 0, 0, MEMORY_STATUS_OK)
CsDisable(c) == Event("cs_disable", c, "none", <<>>, 0, 0, MEMORY_STATUS_OK)
\* byte-write of a driver-local buffer with the given contents
BusWrite(bytes, rc) == Event("write", NoCs, "local", bytes, 0, Len(bytes), rc)
\* byte-write of the caller's data buffer, data[off .. off+len)
BusWriteData(off, len, rc) == Event("write", NoCs, "data", <<>>, off, len, rc)
\* byte-read into the caller's data buffer
BusReadData(len, rc) == Event("read", NoCs, "data", <<>>, 0, len, rc)
\* byte-read of one byte into a register variable; v is the byte delivered
BusReadReg(v, rc) == Event("read", NoCs, "reg", <<v>>, 0, 1, rc)

\* the events of one transaction, with the statuses e and d that cs_enable
\* and cs_disable report
WithCs(ev, e, d) ==
    [k \in 1 .. Len(ev) |->
        IF ev[k].op = "cs_enable" THEN [ev[k] EXCEPT !.rc = e]
        ELSE IF ev[k].op = "cs_disable" THEN [ev[k] EXCEPT !.rc = d]
        ELSE ev[k]]

Result(rc, ev) == [rc |-> rc, ev |-> ev]

\* ------------------------------------------------------- handle validation
\* faulty variant: the test of cs_enable is missing
cat25256_check_handle_NoCsEnable(h) ==
    IF h.null THEN MEMORY_STATUS_INVALID_HANDLE
    ELSE IF ~h.read THEN MEMORY_STATUS_INVALID_HANDLE
    ELSE IF ~h.cs_disable THEN MEMORY_STATUS_INVALID_HANDLE
    ELSE IF ~h.write THEN MEMORY_STATUS_INVALID_HANDLE
    ELSE MEMORY_STATUS_OK

cat25256_check_handle(h) ==
    IF h.null THEN MEMORY_STATUS_INVALID_HANDLE
    ELSE IF ~h.read THEN MEMORY_STATUS_INVALID_HANDLE
    ELSE IF ~h.cs_disable THEN MEMORY_STATUS_INVALID_HANDLE
    ELSE IF ~h.cs_enable THEN MEMORY_STATUS_INVALID_HANDLE
    ELSE IF ~h.write THEN MEMORY_STATUS_INVALID_HANDLE
    ELSE MEMORY_STATUS_OK

\* -------------------------------------------------- transaction primitives
Header_Wide(opcode, a) == <<opcode, a \div 256, Uint8(a)>>

Header(opcode, a) == <<opcode, Uint8(a \div 256), Uint8(a)>>

\* faulty variant: the data is read although the header transfer failed
cat25256_atomic_read_NoEarlyReturn(a, l, c, w, r) ==
    Result(Uint8(r), <<CsEnable(c), BusWrite(Header(READ, a), w),
                       BusReadData(l, r), CsDisable(c)>>)

\* faulty variant: the header carries the write opcode
cat25256_atomic_read_WriteOpcode(a, l, c, w, r) ==
    IF w # MEMORY_STATUS_OK
    THEN Result(MEMORY_STATUS_NOK,
                <<CsEnable(c), BusWrite(Header(WRITE, a), w), CsDisable(c)>>)
    ELSE Result(Uint8(r),
                <<CsEnable(c), BusWrite(Header(WRITE, a), w),
                  BusReadData(l, r), CsDisable(c)>>)

\* w: result of the header byte-write, r: result of the byte-read
cat25256_atomic_read(a, l, c, w, r) ==
    IF w # MEMORY_STATUS_OK
    THEN Result(MEMORY_STATUS_NOK,
                <<CsEnable(c), BusWrite(Header(READ, a), w), CsDisable(c)>>)
    ELSE Result(Uint8(r),
                <<CsEnable(c), BusWrite(Header(READ, a), w),
                  BusReadData(l, r), CsDisable(c)>>)

cat25256_read_op(h, a, l, c, w, r) ==
    IF cat25256_check_handle(h) # MEMORY_STATUS_OK
    THEN Result(cat25256_check_handle(h), <<>>)
    ELSE cat25256_atomic_read(a, l, c, w, r)

\* faulty variant: the opcode is written without selecting the chip
cat25256_atomic_write_latch_NoEnable(enable, c, w) ==
    Result(w, <<BusWrite(<<enable>>, w), CsDisable(c)>>)

\* w: result of the opcode byte-write
cat25256_atomic_write_latch(enable, c, w) ==
    Result(w, <<CsEnable(c), BusWrite(<<enable>>, w), CsDisable(c)>>)

cat25256_atomic_write_latch_enable(c, w) ==
    cat25256_atomic_write_latch(WREN, c, w)

cat25256_atomic_write_latch_disable(c, w) ==
    cat25256_atomic_write_latch(WRDI, c, w)

\* faulty variant: chip-select stays enabled when the header transfer fails
cat25256_atomic_write_NoDisable(a, off, l, c, w1, w2) ==
    IF w1 # MEMORY_STATUS_OK
    THEN Result(MEMORY_STATUS_NOK,
                <<CsEnable(c), BusWrite(Header(WRITE, a), w1)>>)
    ELSE Result(Uint8(w2),
                <<CsEnable(c), BusWrite(Header(WRITE, a), w1),
                  BusWriteData(off, l, w2), CsDisable(c)>>)

\* w1: result of the header byte-write, w2: result of the payload byte-write
cat25256_atomic_write(a, off, l, c, w1, w2) ==
    IF w1 # MEMORY_STATUS_OK
    THEN Result(MEMORY_STATUS_NOK,
                <<CsEnable(c), BusWrite(Header(WRITE, a), w1), CsDisable(c)>>)
    ELSE Result(Uint8(w2),
                <<CsEnable(c), BusWrite(Header(WRITE, a), w1),
                  BusWriteData(off, l, w2), CsDisable(c)>>)

\* w: result of the opcode byte-write, r: result of the byte-read,
\* v: the byte the device delivers
cat25256_read_register(h, c, w, r, v) ==
    IF cat25256_check_handle(h) # MEMORY_STATUS_OK
    THEN Result(cat25256_check_handle(h), <<>>)
    ELSE IF w # MEMORY_STATUS_OK
    THEN Result(MEMORY_STATUS_NOK,
                <<CsEnable(c), BusWrite(<<RDSR>>, w), CsDisable(c)>>)
    ELSE Result(r, <<CsEnable(c), BusWrite(<<RDSR>>, w),
                     BusReadReg(v, r), CsDisable(c)>>)

\* w: result of the byte-write
cat25256_write_register(h, data, c, w) ==
    IF cat25256_check_handle(h) # MEMORY_STATUS_OK
    THEN Result(cat25256_check_handle(h), <<>>)
    ELSE Result(w, <<CsEnable(c), BusWrite(<<WRSR, data>>, w), CsDisable(c)>>)

\* ------------------------------------------------- address-range splitter
\* faulty variant: the page-size test excludes a request of exactly one page
WriteBranch_Strict(a, l) ==
    IF l < PAGE_SIZE THEN "small"
    ELSE IF a % PAGE_SIZE = 0 THEN "aligned"
    ELSE "unaligned"

\* which branch of cat25256_write serves the request
WriteBranch(a, l) ==
    IF l <= PAGE_SIZE THEN "small"
    ELSE IF a % PAGE_SIZE = 0 THEN "aligned"
    ELSE "unaligned"

\* page_count of cat25256_write_address_aligned
PageCount(l) ==
    IF l % PAGE_SIZE # 0 THEN l \div PAGE_SIZE + 1 ELSE l \div PAGE_SIZE

\* length handed to cat25256_write_page in iteration k of the loop
AlignedPageLength(l, k) ==
    IF k = PageCount(l) - 1 THEN l % PAGE_SIZE ELSE PAGE_SIZE

\* the cat25256_write_page call of iteration k: device address, offset of
\* the payload in the caller's buffer, length; rc is filled in on return
NoRc == -1
PageCall(a, off, l) == [address |-> a, off |-> off, length |-> l, rc |-> NoRc]
AlignedPage(a, off, l, k) ==
    PageCall(a + k * PAGE_SIZE, off + k * PAGE_SIZE,
             AlignedPageLength(l, k))

\* faulty variant: the first page write is a full page wherever it starts
LengthFirstTransmission_Full(a, l) == PAGE_SIZE

\* length_first_transmission of cat25256_write_address_unaligned
LengthFirstTransmission(a, l) ==
    IF PAGE_SIZE - (a % PAGE_SIZE) > l THEN l
    ELSE PAGE_SIZE - (a % PAGE_SIZE)

\* length_remainder of cat25256_write_address_unaligned
LengthRemainder(a, l) == l - LengthFirstTransmission(a, l)

\* faulty variant: the loop goes on whatever the page write returned
AlignedContinues_Always(l, k, rc) == k + 1 < PageCount(l)

\* does the loop of cat25256_write_address_aligned go on after the page
\* write of iteration k returned rc
AlignedContinues(l, k, rc) ==
    rc = MEMORY_STATUS_OK /\ k + 1 < PageCount(l)

\* value cat25256_write_address_aligned returns when the loop ends after
\* the page write of iteration k returned rc
AlignedResult(rc) ==
    IF rc # MEMORY_STATUS_OK THEN rc ELSE MEMORY_STATUS_OK

\* does cat25256_write_address_unaligned call the aligned case after the
\* first page write returned rc
UnalignedContinues(a, l, rc) ==
    rc = MEMORY_STATUS_OK /\ LengthRemainder(a, l) > 0

\* ------------------------------------------------------- page write steps
\* outcome of a step of cat25256_write_page: the status to return (NoRc
\* when the function goes on) and the next position
Step(rc, next) == [rc |-> rc, next |-> next]

\* lines 130-133
WritePageAfterCheck(rc) ==
    IF rc # MEMORY_STATUS_OK THEN Step(rc, "wp_ret")
    ELSE Step(NoRc, "wp_wrsr")

\* faulty variant: the result of the status-register write is not looked at
WritePageAfterRegister_Ignored(rc) == Step(NoRc, "wp_wren")

\* lines 135-137
WritePageAfterRegister(rc) ==
    IF rc # MEMORY_STATUS_OK THEN Step(MEMORY_STATUS_NOK, "wp_ret")
    ELSE Step(NoRc, "wp_wren")

\* faulty variant: the result of the latch enable is not looked at
WritePageAfterLatchEnable_Ignored(rc) == Step(NoRc, "wp_write")

\* lines 139-141
WritePageAfterLatchEnable(rc) ==
    IF rc # MEMORY_STATUS_OK THEN Step(MEMORY_STATUS_NOK, "wp_ret")
    ELSE Step(NoRc, "wp_write")

\* faulty variant: a failed write transaction returns without the latch disable
WritePageTransaction_NoCleanup(a, off, l, c, w1, w2, wd) ==
    LET t == cat25256_atomic_write(a, off, l, c, w1, w2)
    IN  IF t.rc # MEMORY_STATUS_OK
        THEN [rc |-> MEMORY_STATUS_NOK, next |-> "wp_ret", ev |-> t.ev]
        ELSE [rc |-> NoRc, next |-> "wp_wrdi", ev |-> t.ev]

\* lines 143-146: the write transaction, and the latch disable on failure;
\* wd is the result of the byte-write of the latch disable
WritePageTransaction(a, off, l, c, w1, w2, wd) ==
    LET t == cat25256_atomic_write(a, off, l, c, w1, w2)
    IN  IF t.rc # MEMORY_STATUS_OK
        THEN [rc |-> MEMORY_STATUS_NOK, next |-> "wp_ret",
              ev |-> t.ev \o cat25256_atomic_write_latch_disable(c, wd).ev]
        ELSE [rc |-> NoRc, next |-> "wp_wrdi", ev |-> t.ev]

\* faulty variant: a failed latch disable fails the page write
WritePageAfterLatchDisable_Fatal(rc) ==
    IF rc # MEMORY_STATUS_OK THEN Step(MEMORY_STATUS_NOK, "wp_ret")
    ELSE Step(NoRc, "wp_poll")

\* line 148: the result of the latch disable is dropped
WritePageAfterLatchDisable(rc) == Step(NoRc, "wp_poll")

\* faulty variant: the status byte is compared with NREADY instead of masked
StillBusy_Equal(w) == w = NREADY

\* loop condition of cat25256_atomic_wait_wip_completed
StillBusy(w) == BitAnd(w, NREADY) # 0

\* faulty variant: the poll gives up at the first busy answer
WaitWipStep_GivesUp(rr, v, rc0) ==
    IF rr # MEMORY_STATUS_OK THEN Step(MEMORY_STATUS_NOK, "wp_ret")
    ELSE IF StillBusy(v) THEN Step(MEMORY_STATUS_NOK, "wp_ret")
    ELSE Step(rc0, "wp_ret")

\* one iteration of the loop of cat25256_atomic_wait_wip_completed, with
\* the loop condition that follows it, and lines 150-154 of write_page:
\* rr is the result of cat25256_read_register, v the byte it stored,
\* rc0 the value of rc of cat25256_write_page (set by the handle check)
WaitWipStep(rr, v, rc0) ==
    IF rr # MEMORY_STATUS_OK THEN Step(MEMORY_STATUS_NOK, "wp_ret")
    ELSE IF StillBusy(v) THEN Step(NoRc, "wp_poll")
    ELSE Step(rc0, "wp_ret")

\* ------------------------------------------------------------------- state
VARIABLES
    pc,        \* position of the driver
    op,        \* public operation called last
    handle,    \* its handle argument
    address,   \* its address argument
    length,    \* its length argument
    cs,        \* its chip-select argument
    fn,        \* splitter function running: "none", "small", "aligned", "unaligned"
    aAddress,  \* address argument of cat25256_write_address_aligned
    aOff,      \* its data argument, as an offset into the caller's buffer
    aLength,   \* its length argument
    i,         \* its loop counter
    calls,     \* cat25256_write_page calls issued by the operation
    bus,       \* capability invocations
    wip,       \* wip of cat25256_atomic_wait_wip_completed
    polls,     \* status reads of the running busy-poll that reported busy
    wp_rc,     \* status returned by the last cat25256_write_page
    ret        \* status returned by the public operation

vars == <<pc, op, handle, address, length, cs, fn, aAddress, aOff, aLength,
          i, calls, bus, wip, polls, wp_rc, ret>>

splitterVars == <<fn, aAddress, aOff, aLength, i>>
argVars == <<op, handle, address, length, cs>>

Init ==
    /\ pc = "idle"
    /\ op = "none"
    /\ handle = ValidHandle
    /\ address = 0
    /\ length = 0
    /\ cs = 0
    /\ fn = "none"
    /\ aAddress = 0
    /\ aOff = 0
    /\ aLength = 0
    /\ i = 0
    /\ calls = <<>>
    /\ bus = <<>>
    /\ wip = NREADY
    /\ polls = 0
    /\ wp_rc = NoRc
    /\ ret = NoRc

\* a public operation is entered
Enter(o, h, a, l, c) ==
    /\ op' = o
    /\ handle' = h
    /\ address' = a
    /\ length' = l
    /\ cs' = c

\* cat25256_write_page is called with the given arguments
CallPage(prev, p) ==
    /\ calls' = Append(prev, p)
    /\ bus' = <<>>
    /\ wip' = NREADY
    /\ polls' = 0
    /\ wp_rc' = NoRc
    /\ pc' = "wp_entry"

CurrentPage == calls[Len(calls)]

\* cat25256_write_page goes on or returns, as the step s says
Advance(s) ==
    /\ pc' = s.next
    /\ wp_rc' = IF s.next = "wp_ret" THEN s.rc ELSE wp_rc
    /\ calls' = IF s.next = "wp_ret"
                THEN [calls EXCEPT ![Len(calls)].rc = s.rc]
                ELSE calls

\* the public operation returns rc to its caller
Return(rc) ==
    /\ ret' = rc
    /\ pc' = "done"

\* cat25256_write_address_aligned(a, data + off, l) is entered: the loop
\* starts, or ends at once when there is no page
EnterAligned(prev, a, off, l) ==
    /\ fn' = "aligned"
    /\ aAddress' = a
    /\ aOff' = off
    /\ aLength' = l
    /\ i' = 0
    /\ IF 0 < PageCount(l)
       THEN CallPage(prev, AlignedPage(a, off, l, 0)) /\ ret' = NoRc
       ELSE /\ Return(MEMORY_STATUS_OK)
            /\ calls' = prev
            /\ UNCHANGED <<bus, wip, polls, wp_rc>>

\* the device reports a write in progress in bit 0 of the status byte
DeviceBusy(v) == v % 2 = 1

\* a transfer that fails delivers no status byte: the register variable
\* keeps a value the driver never looks at, written 0 here
Delivered(w, r, v) ==
    (w # MEMORY_STATUS_OK \/ r # MEMORY_STATUS_OK) => v = 0

\* ---------------------------------------------- one-transaction operations
cat25256_read ==
    /\ pc = "idle"
    /\ \E h \in Handles, a \in Addresses, l \in Lengths, c \in ChipSelects,
       w \in CapResults, r \in CapResults,
       e \in CapResults, d \in CapResults :
        /\ Enter("read", h, a, l, c)
        /\ LET res == cat25256_read_op(h, a, l, c, w, r)
           IN  bus' = WithCs(res.ev, e, d) /\ Return(res.rc)
        /\ calls' = <<>>
        /\ fn' = "none"
        /\ UNCHANGED <<aAddress, aOff, aLength, i, wip, polls, wp_rc>>

\* the caller repeats the cat25256_read that has just returned, with the
\* same arguments and nothing in between; the trace keeps both reads
cat25256_read_again ==
    /\ pc = "done"
    /\ op = "read"
    /\ \E w \in CapResults, r \in CapResults :
        LET res == cat25256_read_op(handle, address, length, cs, w, r)
        IN  bus' = bus \o res.ev /\ Return(res.rc)
    /\ op' = "read_again"
    /\ UNCHANGED <<handle, address, length, cs, splitterVars, calls, wip,
                   polls, wp_rc>>

cat25256_read_register_call ==
    /\ pc = "idle"
    /\ \E h \in Handles, c \in ChipSelects, w \in CapResults, r \in CapResults,
       v \in StatusValues, e \in CapResults, d \in CapResults :
        /\ Delivered(w, r, v)
        /\ Enter("read_register", h, 0, 1, c)
        /\ LET res == cat25256_read_register(h, c, w, r, v)
           IN  bus' = WithCs(res.ev, e, d) /\ Return(res.rc)
        /\ calls' = <<>>
        /\ fn' = "none"
        /\ UNCHANGED <<aAddress, aOff, aLength, i, wip, polls, wp_rc>>

cat25256_write_register_call ==
    /\ pc = "idle"
    /\ \E h \in Handles, c \in ChipSelects, v \in StatusValues, w \in CapResults,
       e \in CapResults, d \in CapResults :
        /\ Enter("write_register", h, 0, v, c)
        /\ LET res == cat25256_write_register(h, v, c, w)
           IN  bus' = WithCs(res.ev, e, d) /\ Return(res.rc)
        /\ calls' = <<>>
        /\ fn' = "none"
        /\ UNCHANGED <<aAddress, aOff, aLength, i, wip, polls, wp_rc>>

\* ------------------------------------------------------ cat25256_write_page
\* cat25256_write_page is called with arguments drawn from the given sets
WritePageCall(H, A, L, C) ==
    /\ pc = "idle"
    /\ \E h \in H, a \in A, l \in L, c \in C :
        /\ Enter("write_page", h, a, l, c)
        /\ CallPage(<<>>, PageCall(a, 0, l))
        /\ ret' = NoRc
        /\ fn' = "none"
        /\ UNCHANGED <<aAddress, aOff, aLength, i>>

cat25256_write_page == WritePageCall(Handles, Addresses, Lengths, ChipSelects)

WritePageCheck ==
    /\ pc = "wp_entry"
    /\ Advance(WritePageAfterCheck(cat25256_check_handle(handle)))
    /\ UNCHANGED <<argVars, splitterVars, bus, wip, polls, ret>>

WritePageStatusRegister ==
    /\ pc = "wp_wrsr"
    /\ \E w \in CapResults :
        LET res == cat25256_write_register(handle, NREADY, cs, w)
        IN  /\ bus' = bus \o res.ev
            /\ Advance(WritePageAfterRegister(res.rc))
    /\ UNCHANGED <<argVars, splitterVars, wip, polls, ret>>

WritePageLatchEnable ==
    /\ pc = "wp_wren"
    /\ \E w \in CapResults :
        LET res == cat25256_atomic_write_latch_enable(cs, w)
        IN  /\ bus' = bus \o res.ev
            /\ Advance(WritePageAfterLatchEnable(res.rc))
    /\ UNCHANGED <<argVars, splitterVars, wip, polls, ret>>

WritePageWrite ==
    /\ pc = "wp_write"
    /\ \E w1 \in CapResults, w2 \in CapResults, wd \in CapResults :
        LET s == WritePageTransaction(CurrentPage.address, CurrentPage.off,
                                      CurrentPage.length, cs, w1, w2, wd)
        IN  /\ bus' = bus \o s.ev
            /\ Advance(Step(s.rc, s.next))
    /\ UNCHANGED <<argVars, splitterVars, wip, polls, ret>>

WritePageLatchDisable ==
    /\ pc = "wp_wrdi"
    /\ \E w \in CapResults :
        LET res == cat25256_atomic_write_latch_disable(cs, w)
        IN  /\ bus' = bus \o res.ev
            /\ Advance(WritePageAfterLatchDisable(res.rc))
    /\ UNCHANGED <<argVars, splitterVars, wip, polls, ret>>

\* one iteration of the busy-poll.  The device reports busy at most
\* MaxPolls times in a row.
WaitWipCompleted ==
    /\ pc = "wp_poll"
    /\ \E w \in CapResults, r \in CapResults, v \in StatusValues :
        /\ polls < MaxPolls \/ ~DeviceBusy(v)
                            \/ w # MEMORY_STATUS_OK \/ r # MEMORY_STATUS_OK
        /\ Delivered(w, r, v)
        /\ LET res == cat25256_read_register(handle, cs, w, r, v)
               s   == WaitWipStep(res.rc, v, cat25256_check_handle(handle))
           IN  /\ bus' = bus \o res.ev
               /\ wip' = IF w = MEMORY_STATUS_OK THEN v ELSE wip
               /\ polls' = IF s.next = "wp_poll" THEN polls + 1 ELSE polls
               /\ Advance(s)
    /\ UNCHANGED <<argVars, splitterVars, ret>>

\* cat25256_write_page, called as the public operation, returns
WritePageReturn ==
    /\ pc = "wp_ret"
    /\ op = "write_page"
    /\ Return(wp_rc)
    /\ UNCHANGED <<argVars, splitterVars, calls, bus, wip, polls, wp_rc>>

\* ----------------------------------------------------------- cat25256_write
\* cat25256_write is called with arguments drawn from the given sets
WriteCall(H, A, L, C) ==
    /\ pc = "idle"
    /\ \E h \in H, a \in A, l \in L, c \in C :
        /\ Enter("write", h, a, l, c)
        /\ CASE WriteBranch(a, l) = "small" ->
                   /\ fn' = "small"
                   /\ CallPage(<<>>, PageCall(a, 0, l))
                   /\ ret' = NoRc
                   /\ UNCHANGED <<aAddress, aOff, aLength, i>>
             [] WriteBranch(a, l) = "aligned" ->
                   EnterAligned(<<>>, a, 0, l)
             [] OTHER ->
                   /\ fn' = "unaligned"
                   /\ CallPage(<<>>, PageCall(a, 0, LengthFirstTransmission(a, l)))
                   /\ ret' = NoRc
                   /\ UNCHANGED <<aAddress, aOff, aLength, i>>

cat25256_write == WriteCall(Handles, Addresses, Lengths, ChipSelects)

\* line 239: the result of the single page write is returned
WriteSmallReturn ==
    /\ pc = "wp_ret"
    /\ op = "write"
    /\ fn = "small"
    /\ Return(wp_rc)
    /\ UNCHANGED <<argVars, splitterVars, calls, bus, wip, polls, wp_rc>>

\* lines 201-214: a page write of the loop returned
WriteAlignedNext ==
    /\ pc = "wp_ret"
    /\ op = "write"
    /\ fn = "aligned"
    /\ IF AlignedContinues(aLength, i, wp_rc)
       THEN /\ i' = i + 1
            /\ CallPage(calls, AlignedPage(aAddress, aOff, aLength, i + 1))
            /\ UNCHANGED <<argVars, fn, aAddress, aOff, aLength, ret>>
       ELSE /\ Return(AlignedResult(wp_rc))
            /\ UNCHANGED <<argVars, splitterVars, calls, bus, wip, polls, wp_rc>>

\* lines 225-233: the first page write of the unaligned case returned
WriteUnalignedNext ==
    /\ pc = "wp_ret"
    /\ op = "write"
    /\ fn = "unaligned"
    /\ IF UnalignedContinues(address, length, wp_rc)
       THEN /\ EnterAligned(calls,
                            address + LengthFirstTransmission(address, length),
                            LengthFirstTransmission(address, length),
                            LengthRemainder(address, length))
            /\ UNCHANGED argVars
       ELSE /\ Return(wp_rc)
            /\ UNCHANGED <<argVars, splitterVars, calls, bus, wip, polls, wp_rc>>

\* the caller has taken the result and is ready for its next call; ret
\* keeps the status of the last operation until the next one is called
CallerContinues ==
    /\ pc = "done"
    /\ pc' = "idle"
    /\ op' = "none"
    /\ handle' = ValidHandle
    /\ address' = 0
    /\ length' = 0
    /\ cs' = 0
    /\ fn' = "none"
    /\ aAddress' = 0
    /\ aOff' = 0
    /\ aLength' = 0
    /\ i' = 0
    /\ calls' = <<>>
    /\ bus' = <<>>
    /\ wip' = NREADY
    /\ polls' = 0
    /\ wp_rc' = NoRc
    /\ UNCHANGED ret

Next ==
    \/ cat25256_read
    \/ cat25256_read_again
    \/ cat25256_read_register_call
    \/ cat25256_write_register_call
    \/ cat25256_write_page
    \/ WritePageCheck
    \/ WritePageStatusRegister
    \/ WritePageLatchEnable
    \/ WritePageWrite
    \/ WritePageLatchDisable
    \/ WaitWipCompleted
    \/ WritePageReturn
    \/ cat25256_write
    \/ WriteSmallReturn
    \/ WriteAlignedNext
    \/ WriteUnalignedNext
    \/ CallerContinues

Spec == Init /\ [][Next]_vars

\* ------------------------------------------------- unbounded busy-poll
\* The loop of cat25256_atomic_wait_wip_completed has no counter.  Once
\* the device has answered busy MaxPolls times, a further busy answer
\* sends the driver round the loop again: the iteration is the same status
\* read as before, the trace is not extended any more, and only wip takes
\* the new status byte.
WaitWipStillBusy ==
    /\ pc = "wp_poll"
    /\ polls = MaxPolls
    /\ \E v \in StatusValues :
        /\ DeviceBusy(v)
        /\ v # wip
        /\ WaitWipStep(MEMORY_STATUS_OK, v, cat25256_check_handle(handle)).next
               = "wp_poll"
        /\ wip' = v
    /\ UNCHANGED <<argVars, splitterVars, calls, bus, polls, wp_rc, pc, ret>>

\* requests of the specification with fairness
FairHandles   == {ValidHandle, NullHandle}
FairAddresses == {0, 60}
FairLengths   == {1, PAGE_SIZE, PAGE_SIZE + 1, MaxLength}
FairChipSelects == {0}

cat25256_write_page_fair ==
    WritePageCall(FairHandles, FairAddresses, FairLengths, FairChipSelects)

cat25256_write_fair ==
    WriteCall(FairHandles, FairAddresses, FairLengths, FairChipSelects)

\* the steps of the driver that need nothing but the capability calls to
\* return
DriverStep ==
    \/ WritePageCheck
    \/ WritePageStatusRegister
    \/ WritePageLatchEnable
    \/ WritePageWrite
    \/ WritePageLatchDisable
    \/ WritePageReturn
    \/ WriteSmallReturn
    \/ WriteAlignedNext
    \/ WriteUnalignedNext

FairNext ==
    \/ cat25256_write_page_fair
    \/ cat25256_write_fair
    \/ WritePageCheck
    \/ WritePageStatusRegister
    \/ WritePageLatchEnable
    \/ WritePageWrite
    \/ WritePageLatchDisable
    \/ WaitWipCompleted
    \/ WaitWipStillBusy
    \/ WritePageReturn
    \/ WriteSmallReturn
    \/ WriteAlignedNext
    \/ WriteUnalignedNext
    \/ CallerContinues

\* every capability call returns (the driver takes its next step), and
\* the device does not answer busy for ever: WaitWipCompleted is, once the
\* device has answered busy MaxPolls times, the status read that fails or
\* reports bit 0 clear
FairSpec ==
    /\ Init
    /\ [][FairNext]_vars
    /\ WF_vars(DriverStep)
    /\ WF_vars(WaitWipCompleted)

\* the same without the assumption on the device
UnfairDeviceSpec ==
    /\ Init
    /\ [][FairNext]_vars
    /\ WF_vars(DriverStep)

TypeOK ==
    /\ pc \in {"idle", "done", "wp_entry", "wp_wrsr", "wp_wren", "wp_write",
               "wp_wrdi", "wp_poll", "wp_ret"}
    /\ op \in {"none", "read", "read_again", "read_register", "write_register",
               "write_page", "write"}
    /\ handle \in Handles
    /\ fn \in {"none", "small", "aligned", "unaligned"}
    /\ ret \in {NoRc, MEMORY_STATUS_OK, MEMORY_STATUS_NOK,
                MEMORY_STATUS_INVALID_HANDLE}
    /\ wp_rc \in {NoRc, MEMORY_STATUS_OK, MEMORY_STATUS_NOK,
                  MEMORY_STATUS_INVALID_HANDLE}
    /\ polls \in 0 .. MaxPolls
    /\ wip \in StatusValues

\* ================================================================== claims
\* all four capabilities are present
HandleComplete(h) ==
    ~h.null /\ h.read /\ h.write /\ h.cs_enable /\ h.cs_disable

\* cat25256_write has returned OK
WriteSucceeded == pc = "done" /\ op = "write" /\ ret = MEMORY_STATUS_OK

CeilDiv(l, n) == (l + n - 1) \div n

RECURSIVE SumLengths(_, _)
\* sum of the lengths of the page writes from call number k on
SumLengths(cl, k) ==
    IF k > Len(cl) THEN 0 ELSE cl[k].length + SumLengths(cl, k + 1)

\* the page writes from call number k on follow one another without gap
\* or overlap
Contiguous(cl, k) ==
    \A j \in k .. Len(cl) - 1 :
        cl[j + 1].address = cl[j].address + cl[j].length

\* C1: a successful write of more than one page at a page-aligned address
\* issues ceil(l/64) page writes of at most 64 bytes each that cover
\* [a, a+l) without gap or overlap; the last one has l mod 64 bytes, or 64
\* when l mod 64 is zero.
C1_AlignedSplit ==
    (WriteSucceeded /\ address % PAGE_SIZE = 0 /\ length > PAGE_SIZE) =>
        /\ Len(calls) = CeilDiv(length, PAGE_SIZE)
        /\ \A k \in 1 .. Len(calls) : calls[k].length <= PAGE_SIZE
        /\ calls[1].address = address
        /\ Contiguous(calls, 1)
        /\ calls[Len(calls)].address + calls[Len(calls)].length
               = address + length
        /\ calls[Len(calls)].length =
               IF length % PAGE_SIZE = 0 THEN PAGE_SIZE
               ELSE length % PAGE_SIZE

\* C2: a successful write of more than 64 bytes at an unaligned address
\* first issues a page write of 64 - (a mod 64) bytes at a, then page
\* writes at aligned addresses whose lengths sum to the rest, so that
\* [a, a+l) is covered.
C2_UnalignedSplit ==
    (WriteSucceeded /\ address % PAGE_SIZE # 0 /\ length > PAGE_SIZE) =>
        /\ Len(calls) >= 2
        /\ calls[1].address = address
        /\ calls[1].length = PAGE_SIZE - (address % PAGE_SIZE)
        /\ \A k \in 2 .. Len(calls) : calls[k].address % PAGE_SIZE = 0
        /\ SumLengths(calls, 2)
               = length - (PAGE_SIZE - (address % PAGE_SIZE))
        /\ Contiguous(calls, 1)
        /\ calls[Len(calls)].address + calls[Len(calls)].length
               = address + length

\* C3: a write of at most 64 bytes issues exactly one page write, with the
\* address and the length of the request, whatever the alignment.
C3_SmallWriteSinglePage ==
    (op = "write" /\ length <= PAGE_SIZE) =>
        /\ Len(calls) = 1
        /\ calls[1].address = address
        /\ calls[1].length = length
        /\ calls[1].off = 0

\* C3 witness: write(60, 10) has returned after its single page write,
\* which crosses the boundary at 64
C3_Witness ==
    /\ WriteSucceeded
    /\ address = 60
    /\ length = 10
    /\ Len(calls) = 1
    /\ calls[1].rc = MEMORY_STATUS_OK

\* the page write stays within one 64-byte page
WithinOnePage(p) ==
    p.length > 0 =>
        p.address \div PAGE_SIZE = (p.address + p.length - 1) \div PAGE_SIZE

\* C4: no page write issued by cat25256_write crosses a page boundary.
C4_NoPageCrossing ==
    op = "write" => \A k \in 1 .. Len(calls) : WithinOnePage(calls[k])

\* C5: an operation on a handle that lacks a capability invokes no
\* capability and returns MEMORY_STATUS_INVALID_HANDLE.
C5_InvalidHandle ==
    ~HandleComplete(handle) =>
        /\ bus = <<>>
        /\ pc = "done" => ret = MEMORY_STATUS_INVALID_HANDLE

\* C5 witness: an unaligned write of more than a page on a handle that
\* lacks only cs_enable has returned
C5_Witness ==
    /\ pc = "done"
    /\ op = "write"
    /\ fn = "unaligned"
    /\ handle = [ValidHandle EXCEPT !.cs_enable = FALSE]
    /\ ret = MEMORY_STATUS_INVALID_HANDLE

\* every cs_enable of the trace is followed by a cs_disable of the same
\* chip-select, with no other chip-select call in between
Balanced(b) ==
    \A k \in 1 .. Len(b) :
        b[k].op = "cs_enable" =>
            \E j \in k + 1 .. Len(b) :
                /\ b[j].op = "cs_disable"
                /\ b[j].cs = b[k].cs
                /\ \A m \in k + 1 .. j - 1 :
                       b[m].op \notin {"cs_enable", "cs_disable"}

\* C6: when a primitive or a public operation returns, every chip-select
\* it enabled has been disabled, whatever byte transfers failed.
C6_ChipSelectReleased == Balanced(bus)

\* position k of the trace is a failed byte-write of the Write Transaction
WriteTransactionFailedAt(k) ==
    /\ bus[k].op = "write"
    /\ bus[k].rc # MEMORY_STATUS_OK
    /\ \/ bus[k].buf = "data"
       \/ bus[k].len = 3 /\ bus[k].bytes[1] = WRITE

\* C6 witness: a page write has returned after the header of its Write
\* Transaction failed
C6_Witness ==
    /\ pc = "done"
    /\ op = "write_page"
    /\ \E k \in 1 .. Len(bus) :
           WriteTransactionFailedAt(k) /\ bus[k].buf = "local"

\* the trace holds a byte-write of the opcode o alone
OpcodeSent(o) == \E k \in 1 .. Len(bus) : bus[k].bytes = <<o>>

\* C7: when the Write Transaction of a page write fails, the latch-disable
\* transaction follows it, the page write then returns NOK, and the status
\* register is not read.
C7_WriteFailureCleanup ==
    op \in {"write", "write_page"} =>
        \A k \in 1 .. Len(bus) :
            WriteTransactionFailedAt(k) =>
                /\ Len(bus) = k + 4
                /\ bus[k + 1] = CsDisable(cs)
                /\ bus[k + 2] = CsEnable(cs)
                /\ bus[k + 3].op = "write" /\ bus[k + 3].bytes = <<WRDI>>
                /\ bus[k + 4] = CsDisable(cs)
                /\ pc \in {"wp_ret", "done"}
                /\ wp_rc = MEMORY_STATUS_NOK
                /\ ~OpcodeSent(RDSR)

\* C7 witness: a page write is about to return after the payload transfer
\* of its Write Transaction failed
C7_Witness ==
    /\ pc = "wp_ret"
    /\ \E k \in 1 .. Len(bus) :
           WriteTransactionFailedAt(k) /\ bus[k].buf = "data"

\* the steps of cat25256_write_page, read off the trace
RegisterWritten ==
    \E k \in 1 .. Len(bus) :
        bus[k].bytes = <<WRSR, NREADY>> /\ bus[k].rc = MEMORY_STATUS_OK
LatchEnabled ==
    \E k \in 1 .. Len(bus) :
        bus[k].bytes = <<WREN>> /\ bus[k].rc = MEMORY_STATUS_OK
PayloadWritten ==
    \E k \in 2 .. Len(bus) :
        /\ bus[k].op = "write" /\ bus[k].buf = "data"
        /\ bus[k].rc = MEMORY_STATUS_OK
        /\ bus[k - 1].rc = MEMORY_STATUS_OK
LatchDisabled ==
    \E k \in 1 .. Len(bus) :
        bus[k].bytes = <<WRDI>> /\ bus[k].rc = MEMORY_STATUS_OK
\* position k is the byte-read of a status-register read
StatusReadAt(k) == bus[k].op = "read" /\ bus[k].buf = "reg"
PollSucceeded ==
    /\ \E k \in 1 .. Len(bus) :
           /\ StatusReadAt(k)
           /\ bus[k].rc = MEMORY_STATUS_OK
           /\ ~DeviceBusy(bus[k].bytes[1])
    /\ \A k \in 1 .. Len(bus) :
           (StatusReadAt(k) \/ bus[k].bytes = <<RDSR>>)
               => bus[k].rc = MEMORY_STATUS_OK

\* cat25256_write_page is about to return on a complete handle
PageWriteReturns == pc = "wp_ret" /\ HandleComplete(handle)

\* C8 as stated: on a complete handle a page write returns OK only if the
\* status-register write, the latch enable, the write transaction, the
\* latch disable and the busy-poll all succeeded, and NOK otherwise.
C8_OkOnlyIfAllSteps ==
    PageWriteReturns =>
        /\ wp_rc \in {MEMORY_STATUS_OK, MEMORY_STATUS_NOK}
        /\ wp_rc = MEMORY_STATUS_OK =>
               /\ RegisterWritten
               /\ LatchEnabled
               /\ PayloadWritten
               /\ LatchDisabled
               /\ PollSucceeded

\* C8 amended: on a complete handle a page write returns OK exactly when
\* the status-register write, the latch enable, the write transaction and
\* the busy-poll succeeded, whatever the latch disable reported, and NOK
\* otherwise.
C8_OkIffStepsButLatchDisable ==
    PageWriteReturns =>
        /\ wp_rc \in {MEMORY_STATUS_OK, MEMORY_STATUS_NOK}
        /\ wp_rc = MEMORY_STATUS_OK <=>
               /\ RegisterWritten
               /\ LatchEnabled
               /\ PayloadWritten
               /\ PollSucceeded

\* C8 witness: a page write returns OK although its latch disable failed
C8_Witness ==
    /\ PageWriteReturns
    /\ wp_rc = MEMORY_STATUS_OK
    /\ OpcodeSent(WRDI)
    /\ ~LatchDisabled

\* C9: a page write of cat25256_write starts only after the previous one
\* returned OK; when a page write fails, cat25256_write returns its status
\* at once, with no further bus transaction and no further page write.
C9_FirstFailureAborts ==
    /\ [](op = "write" =>
            \A k \in 1 .. Len(calls) - 1 : calls[k].rc = MEMORY_STATUS_OK)
    /\ [][(pc = "wp_ret" /\ op = "write" /\ wp_rc # MEMORY_STATUS_OK) =>
            (pc' = "done" /\ ret' = wp_rc /\ bus' = bus /\ calls' = calls)]_vars

\* C9 witness: a three-page write has returned NOK from its second page
C9_Witness ==
    /\ pc = "done"
    /\ op = "write"
    /\ PageCount(length) = 3
    /\ Len(calls) = 2
    /\ calls[2].rc = MEMORY_STATUS_NOK
    /\ ret = MEMORY_STATUS_NOK

\* number of status-register byte-reads in the trace
RECURSIVE StatusReads(_)
StatusReads(k) ==
    IF k = 0 THEN 0
    ELSE StatusReads(k - 1) + (IF StatusReadAt(k) THEN 1 ELSE 0)

\* C10: a page write returns OK only after a status read that follows the
\* payload transfer delivered a byte with bit 0 clear; every poll
\* iteration is a status-register read transaction of its own; a status
\* read that fails during the poll makes the page write return NOK.
C10_BusyPoll ==
    /\ (pc = "wp_ret" /\ wp_rc = MEMORY_STATUS_OK) =>
           /\ StatusReadAt(Len(bus) - 1)
           /\ bus[Len(bus) - 1].rc = MEMORY_STATUS_OK
           /\ BitAnd(bus[Len(bus) - 1].bytes[1], NREADY) = 0
           /\ \E j \in 1 .. Len(bus) - 2 :
                  bus[j].op = "write" /\ bus[j].buf = "data"
           /\ StatusReads(Len(bus)) = polls + 1
    /\ \A k \in 1 .. Len(bus) :
           StatusReadAt(k) =>
               /\ k >= 3
               /\ bus[k - 2].op = "cs_enable" /\ bus[k - 2].cs = cs
               /\ bus[k - 1] = BusWrite(<<RDSR>>, MEMORY_STATUS_OK)
               /\ bus[k + 1].op = "cs_disable" /\ bus[k + 1].cs = cs
    /\ (pc = "wp_ret" /\ op \in {"write", "write_page"}
           /\ \E k \in 1 .. Len(bus) :
                  /\ StatusReadAt(k) \/ bus[k].bytes = <<RDSR>>
                  /\ bus[k].rc # MEMORY_STATUS_OK)
       => wp_rc = MEMORY_STATUS_NOK

\* C10 witness: a page write returns OK after one status read that
\* reported busy and a second one that reported ready
C10_Witness ==
    /\ pc = "wp_ret"
    /\ wp_rc = MEMORY_STATUS_OK
    /\ polls = 1
    /\ StatusReads(Len(bus)) = 2

\* the step is a status read of the busy-poll that succeeded and delivered
\* a byte with bit 0 set
BusyAnswer ==
    /\ pc = "wp_poll"
    /\ DeviceBusy(wip')
    /\ \/ bus' = bus /\ wip' # wip
       \/ /\ Len(bus') = Len(bus) + 4
          /\ bus'[Len(bus') - 1].rc = MEMORY_STATUS_OK

\* every operation that was called returns
Terminates ==
    /\ (pc = "wp_entry") ~> (pc = "wp_ret")
    /\ (pc # "idle") ~> (pc = "done")

\* C11: the busy-poll has no bound: every status read that succeeds with
\* bit 0 set sends the page write round the loop again, however many came
\* before; when the device does not answer busy for ever and every
\* capability call returns, every page write and every write returns.
C11_PollTermination ==
    /\ [][BusyAnswer => (pc' = "wp_poll" /\ wp_rc' = wp_rc /\ calls' = calls)]_vars
    /\ Terminates

\* C11 witness: the page write is still polling after more busy answers
\* than the trace records
C11_Witness ==
    /\ pc = "wp_poll"
    /\ polls = MaxPolls
    /\ wip # bus[Len(bus) - 1].bytes[1]

\* C12: once a capability call (cs_enable, byte-write, byte-read,
\* cs_disable) has reported a status other than OK, no further byte
\* transfer is started and the operation returns a status other than OK.
C12_FirstFailureReturns ==
    \A k \in 1 .. Len(bus) :
        bus[k].rc # MEMORY_STATUS_OK =>
            /\ \A j \in k + 1 .. Len(bus) : bus[j].op \notin {"read", "write"}
            /\ pc = "done" => ret # MEMORY_STATUS_OK
            /\ pc = "wp_ret" => wp_rc # MEMORY_STATUS_OK

\* the byte a static device holds at address a
DeviceByte(a) == (a * 7 + 3) % 256

\* the bytes a static device delivers in the read transaction whose header
\* is event k of the trace b
ReadData(b, k) ==
    [j \in 1 .. b[k + 1].len |->
        DeviceByte(b[k].bytes[2] * 256 + b[k].bytes[3] + j - 1)]

\* no capability call of the trace reported a failure
FaultFree(b) == \A k \in 1 .. Len(b) : b[k].rc = MEMORY_STATUS_OK

\* the only bytes the trace sends to the device are read headers
OnlyReadOpcode(b) ==
    \A k \in 1 .. Len(b) :
        b[k].op = "write" =>
            b[k].buf = "local" /\ b[k].len = 3 /\ b[k].bytes[1] = READ

OpcodeScope(k, bytes) ==
    /\ bus[k] = CsEnable(cs)
    /\ bus[k + 1].op = "write" /\ bus[k + 1].bytes = bytes
    /\ bus[k + 2] = CsDisable(cs)

\* position k is a failed byte-write of the status-register write or of
\* the latch enable
SetupFailedAt(k) ==
    /\ bus[k].rc # MEMORY_STATUS_OK
    /\ bus[k].bytes \in {<<WRSR, NREADY>>, <<WREN>>}

\* C14: a page write that returns OK has put on the bus, each in a
\* chip-select scope of its own and in this order, WRSR with NREADY, WREN,
\* the WRITE header with the payload, WRDI, and one or more RDSR reads;
\* when the status-register write or the latch enable fails, the page
\* write returns NOK and no WRITE, WRDI or RDSR is sent.
C14_PageWriteOrder ==
    /\ (pc = "wp_ret" /\ wp_rc = MEMORY_STATUS_OK) =>
           /\ Len(bus) = 13 + 4 * (polls + 1)
           /\ OpcodeScope(1, <<WRSR, NREADY>>)
           /\ bus[2].rc = MEMORY_STATUS_OK
           /\ OpcodeScope(4, <<WREN>>)
           /\ bus[5].rc = MEMORY_STATUS_OK
           /\ bus[7] = CsEnable(cs)
           /\ bus[8].op = "write" /\ bus[8].buf = "local"
           /\ bus[8].len = 3 /\ bus[8].bytes[1] = WRITE
           /\ bus[8].rc = MEMORY_STATUS_OK
           /\ bus[9] = BusWriteData(CurrentPage.off, CurrentPage.length,
                                    MEMORY_STATUS_OK)
           /\ bus[10] = CsDisable(cs)
           /\ OpcodeScope(11, <<WRDI>>)
           /\ \A n \in 0 .. polls :
                  /\ bus[14 + 4 * n] = CsEnable(cs)
                  /\ bus[15 + 4 * n] = BusWrite(<<RDSR>>, MEMORY_STATUS_OK)
                  /\ StatusReadAt(16 + 4 * n)
                  /\ bus[17 + 4 * n] = CsDisable(cs)
    /\ op \in {"write", "write_page"} =>
           \A k \in 1 .. Len(bus) :
               SetupFailedAt(k) =>
                   /\ Len(bus) = k + 1
                   /\ pc \in {"wp_ret", "done"}
                   /\ wp_rc = MEMORY_STATUS_NOK
                   /\ ~OpcodeSent(WRDI)
                   /\ ~OpcodeSent(RDSR)
                   /\ \A j \in 1 .. Len(bus) : bus[j].buf # "data"

\* C14 witness: a page write of a full page returns OK after a single
\* status read
C14_Witness ==
    /\ pc = "wp_ret"
    /\ wp_rc = MEMORY_STATUS_OK
    /\ polls = 0
    /\ Len(bus) = 17
    /\ CurrentPage.length = PAGE_SIZE

\* the latch-disable transaction was sent and its byte-write failed
LatchDisableFailed ==
    \E k \in 1 .. Len(bus) :
        bus[k].bytes = <<WRDI>> /\ bus[k].rc # MEMORY_STATUS_OK

\* C15: when the payload was written and the latch disable that follows
\* fails, the busy-poll is still run and the page write returns OK if the
\* poll succeeds.
C15_LatchDisableNotFatal ==
    (PayloadWritten /\ LatchDisableFailed) =>
        /\ pc \in {"wp_poll", "wp_ret", "done"}
        /\ pc # "wp_poll" => OpcodeSent(RDSR)
        /\ (pc # "wp_poll" /\ PollSucceeded) => wp_rc = MEMORY_STATUS_OK

\* C15 witness: cat25256_write_page has returned OK to its caller after
\* a failed latch disable
C15_Witness ==
    /\ pc = "done"
    /\ op = "write_page"
    /\ ret = MEMORY_STATUS_OK
    /\ PayloadWritten
    /\ LatchDisableFailed

\* position k is a failed byte-write of the opcode or header of a Read
\* Transaction, a Write Transaction or a Status-Register Read
HeaderFailedAt(k) ==
    /\ bus[k].op = "write"
    /\ bus[k].buf = "local"
    /\ bus[k].rc # MEMORY_STATUS_OK
    /\ \/ bus[k].bytes = <<RDSR>>
       \/ bus[k].len = 3 /\ bus[k].bytes[1] \in {READ, WRITE}

\* C16: when the byte-write of the opcode or header fails, the primitive
\* disables chip-select at once, transfers nothing more in that scope (no
\* payload, no read into the caller's buffer) and returns NOK.
C16_HeaderFailure ==
    \A k \in 1 .. Len(bus) :
        HeaderFailedAt(k) =>
            /\ k > 1 /\ k < Len(bus)
            /\ bus[k - 1].op = "cs_enable" /\ bus[k - 1].cs = cs
            /\ bus[k + 1].op = "cs_disable" /\ bus[k + 1].cs = cs
            /\ (op \in {"read", "read_again", "read_register"}
                   /\ Len(bus) = k + 1) => ret = MEMORY_STATUS_NOK
            /\ op \in {"write", "write_page"} =>
                   /\ wp_rc = MEMORY_STATUS_NOK
                   /\ \A j \in k + 1 .. Len(bus) : bus[j].buf # "data"

\* C16 witness: a read of some bytes has returned after its header failed
C16_Witness ==
    /\ pc = "done"
    /\ op = "read"
    /\ length > 0
    /\ Len(bus) = 3
    /\ HeaderFailedAt(2)

\* C17: every page write issued by a cat25256_write of more than 64 bytes
\* has a length of at most 64 and a range inside one 64-byte page.
C17_PagePrecondition ==
    (op = "write" /\ length > PAGE_SIZE) =>
        \A k \in 1 .. Len(calls) :
            /\ calls[k].length \in 0 .. PAGE_SIZE
            /\ (calls[k].address % PAGE_SIZE) + calls[k].length <= PAGE_SIZE

\* C17 witness: an unaligned write of more than two pages has returned OK
\* after three page writes
C17_Witness ==
    /\ WriteSucceeded
    /\ address % PAGE_SIZE = 60
    /\ length = 2 * PAGE_SIZE + 2
    /\ Len(calls) = 3

\* every page write takes its payload at the data offset that equals its
\* address offset
OffsetsMatch ==
    \A k \in 1 .. Len(calls) : calls[k].off = calls[k].address - address

\* the payloads of the page writes, in issue order, are data[0 .. length)
PayloadsConcatenate ==
    /\ calls[1].off = 0
    /\ \A k \in 1 .. Len(calls) - 1 :
           calls[k + 1].off = calls[k].off + calls[k].length
    /\ calls[Len(calls)].off + calls[Len(calls)].length = length

\* C18: a page write of cat25256_write at device address a+k takes its
\* payload at data[k], and when every page write succeeds the payloads
\* concatenate, in issue order, to data[0 .. l).
C18_DataOffsets ==
    op = "write" =>
        /\ OffsetsMatch
        /\ WriteSucceeded => PayloadsConcatenate

Opcodes == {WREN, WRDI, RDSR, WRSR, READ, WRITE}

IsCsEvent(e) == e.op \in {"cs_enable", "cs_disable"}

\* event k of the trace is a transfer made while chip-select c is enabled
InScope(b, k, c) ==
    \E j \in 1 .. k - 1 :
        /\ b[j].op = "cs_enable" /\ b[j].cs = c
        /\ \A m \in j + 1 .. k - 1 : ~IsCsEvent(b[m])

\* C19: the byte-read and byte-write capabilities are invoked only inside
\* a chip-select scope, no scope is opened while one is open, every scope
\* is closed on the chip-select it was opened on, and every scope carries
\* exactly one opcode, first.
C19_WellScoped ==
    /\ \A k \in 1 .. Len(bus) :
           /\ bus[k].op \in {"read", "write"} => InScope(bus, k, cs)
           /\ bus[k].op = "cs_enable" =>
                  /\ k = 1 \/ bus[k - 1].op = "cs_disable"
                  /\ k < Len(bus)
                  /\ bus[k + 1].op = "write" /\ bus[k + 1].buf = "local"
                  /\ bus[k + 1].bytes[1] \in Opcodes
           /\ bus[k].op = "cs_disable" =>
                  /\ k > 2
                  /\ bus[k - 1].op \in {"read", "write"}
                  /\ bus[k].cs = cs
           /\ (bus[k].op = "write" /\ bus[k].buf = "local") =>
                  (k > 1 /\ bus[k - 1].op = "cs_enable")
    /\ Len(bus) > 0 => bus[Len(bus)].op = "cs_disable"

\* C19 witness: a page write has enabled the write latch and is about to
\* send the payload
C19_Witness ==
    /\ pc = "wp_write"
    /\ Len(bus) = 6
    /\ bus[5].bytes = <<WREN>>
    /\ bus[5].rc = MEMORY_STATUS_OK

\* the address handed to the transaction whose header is on the bus
TransactionAddress ==
    IF op \in {"read", "read_again"} THEN address ELSE CurrentPage.address

\* C20: the header of a READ or WRITE transaction is three bytes, the
\* opcode, (address >> 8) mod 256 and address mod 256, which is the
\* big-endian encoding of address mod 65536; addresses that differ only
\* from bit 16 on give the same header.
C20_HeaderEncoding ==
    /\ \A k \in 1 .. Len(bus) :
           (bus[k].buf = "local" /\ bus[k].bytes[1] \in {READ, WRITE}) =>
               /\ Len(bus[k].bytes) = 3
               /\ bus[k].len = 3
               /\ bus[k].bytes[1] =
                      (IF op \in {"read", "read_again"} THEN READ ELSE WRITE)
               /\ bus[k].bytes[2] = (TransactionAddress \div 256) % 256
               /\ bus[k].bytes[3] = TransactionAddress % 256
               /\ 256 * bus[k].bytes[2] + bus[k].bytes[3]
                      = TransactionAddress % 65536
               /\ \A n \in 2 .. 3 : bus[k].bytes[n] \in 0 .. 255
    /\ \A o \in {READ, WRITE} : \A a \in Addresses :
           /\ Header(o, a + 65536) = Header(o, a)
           /\ Header(o, a % 65536) = Header(o, a)

\* C20 witness: a read at an address above 2^16 has sent its header
C20_Witness ==
    /\ pc = "done"
    /\ op = "read"
    /\ address = 65636
    /\ Len(bus) >= 2
    /\ bus[2].bytes = <<READ, 0, 100>>

====
